---------------------------- MODULE Spec2Model ----------------------------
(***************************************************************************)
(* The trust-entry registry of cf-vault-auth-plugin (path_certs.go): the   *)
(* four request handlers pathCertList, pathCertRead, pathCertDelete and    *)
(* pathCertWrite over a logical.Storage.                                   *)
(*                                                                         *)
(* Representation.  A Go string is a sequence of one-character strings, so *)
(* that strings.ToLower and the "cert/" key prefix are computed.  The text *)
(* of the certificate field is the sequence of the PEM blocks it holds.    *)
(* A time.Duration is an integer number of nanoseconds; the ttl and        *)
(* max_ttl fields are whole seconds, taken from the range in which         *)
(* time.Duration(n) * time.Second does not wrap.  logical.Storage is the   *)
(* key-value store the handlers are given; its calls succeed (the          *)
(* err != nil branches of the handlers return the storage's error and      *)
(* touch nothing).                                                         *)
(***************************************************************************)
EXTENDS Integers, Sequences, FiniteSets, TLC

VARIABLES
    storage,    \* req.Storage: key -> logical.StorageEntry, defined on the keys present
    last,       \* the last request served and the response it got
    live,       \* history: normalized names whose last successful Write/Delete was a Write
    pc,         \* concurrent writers: position of each pathCertWrite call
    call,       \* concurrent writers: the locals of each call (name, certEntry, resp)
    lastPut     \* history: key -> the writer whose Storage.Put reached the key last

vars == <<storage, last, live, pc, call, lastPut>>

-----------------------------------------------------------------------------
(* Strings *)

Second == 1000000000

Prefix == <<"c", "e", "r", "t", "/">>

ToLowerChar(c) ==
    CASE c = "A" -> "a"
      [] c = "B" -> "b"
      [] c = "D" -> "d"
      [] OTHER -> c

\* variant: only the first letter is lowered
ToLowerUpperOnlyFirst(s) ==
    [i \in DOMAIN s |-> IF i = 1 THEN ToLowerChar(s[i]) ELSE s[i]]

ToLower(s) == [i \in DOMAIN s |-> ToLowerChar(s[i])]

-----------------------------------------------------------------------------
(* logical.Storage *)

Nil == [nil |-> TRUE]

StorageGet(s, key) == IF key \in DOMAIN s THEN s[key] ELSE Nil

\* variant: a put that keeps the DisplayName of the entry it replaces
StoragePutMerge(s, entry) ==
    IF entry.Key \in DOMAIN s
    THEN [s EXCEPT ![entry.Key] =
             [entry EXCEPT !.Value.DisplayName = s[entry.Key].Value.DisplayName]]
    ELSE [k \in DOMAIN s \cup {entry.Key} |-> IF k = entry.Key THEN entry ELSE s[k]]

StoragePut(s, entry) ==
    [k \in DOMAIN s \cup {entry.Key} |-> IF k = entry.Key THEN entry ELSE s[k]]

StorageDelete(s, key) == [k \in DOMAIN s \ {key} |-> s[k]]

HasPrefix(k, prefix) ==
    /\ Len(k) >= Len(prefix)
    /\ SubSeq(k, 1, Len(prefix)) = prefix

StorageList(s, prefix) ==
    {SubSeq(k, Len(prefix) + 1, Len(k)) : k \in {x \in DOMAIN s : HasPrefix(x, prefix)}}

StorageEntryJSON(key, v) == [Key |-> key, Value |-> v]

DecodeJSON(entry) == entry.Value

-----------------------------------------------------------------------------
(* logical.Response *)

NilResponse == [kind |-> "nil"]

ErrorResponse(text) == [kind |-> "error", error |-> text]

WarningsResponse(w) == [kind |-> "response", warnings |-> w]

DataResponse(d) == [kind |-> "data", data |-> d]

ListResponse(keys) == [kind |-> "list", keys |-> keys]

IsError(r) == r.kind = "error"

ErrTTLNegative == "ttl cannot be negative"
ErrMaxTTLNegative == "max_ttl cannot be negative"
ErrTTLOverMax == "ttl should be shorter than max_ttl"
ErrParse == "failed to parse certificate"
ErrKeyUsage == "non-CA certificates should have TLS client authentication set as an extended key usage"

NoError == "ok"


-----------------------------------------------------------------------------
(* policyutil.ParsePolicies: the canonical, duplicate-free, order-insignificant
   policy set of a raw policy list *)

ParsePolicies(raw) == {raw[i] : i \in DOMAIN raw}

-----------------------------------------------------------------------------
(* parsePEM: the X.509 certificates of the PEM blocks of a text, in the order
   of the blocks; a block that is no certificate is skipped *)

RECURSIVE parsePEM(_)
parsePEM(raw) ==
    IF raw = <<>> THEN <<>>
    ELSE IF Head(raw).ok
         THEN <<[IsCA |-> Head(raw).IsCA, ExtKeyUsage |-> Head(raw).ExtKeyUsage]>>
                  \o parsePEM(Tail(raw))
         ELSE parsePEM(Tail(raw))

-----------------------------------------------------------------------------
(* pathCertWrite, piece by piece *)

Warning(field, given, system) ==
    [field |-> field, given |-> given \div Second, system |-> system \div Second]

\* lines 147-149 and 158-160: resp.AddWarning
\* variant: a warning already when the ceiling is reached
TTLWarningsInclusive(ttl, maxTTL, systemDefaultTTL, systemMaxTTL) ==
    (IF ttl >= systemDefaultTTL
        THEN <<Warning("ttl", ttl, systemDefaultTTL)>> ELSE <<>>)
    \o (IF maxTTL >= systemMaxTTL
        THEN <<Warning("max_ttl", maxTTL, systemMaxTTL)>> ELSE <<>>)

TTLWarnings(ttl, maxTTL, systemDefaultTTL, systemMaxTTL) ==
    (IF ttl > systemDefaultTTL
        THEN <<Warning("ttl", ttl, systemDefaultTTL)>> ELSE <<>>)
    \o (IF maxTTL > systemMaxTTL
        THEN <<Warning("max_ttl", maxTTL, systemMaxTTL)>> ELSE <<>>)

\* lines 151-153, 162-168: the three rejections on ttl and max_ttl
\* variant: without the check of line 166
TTLErrorNoOrderCheck(ttl, maxTTL) ==
    IF ttl < 0 THEN ErrTTLNegative
    ELSE IF maxTTL < 0 THEN ErrMaxTTLNegative
    ELSE NoError

\* variant: line 166 without the test maxTTL != 0
TTLErrorNoSentinel(ttl, maxTTL) ==
    IF ttl < 0 THEN ErrTTLNegative
    ELSE IF maxTTL < 0 THEN ErrMaxTTLNegative
    ELSE IF ttl >= maxTTL THEN ErrTTLOverMax
    ELSE NoError

TTLError(ttl, maxTTL) ==
    IF ttl < 0 THEN ErrTTLNegative
    ELSE IF maxTTL < 0 THEN ErrMaxTTLNegative
    ELSE IF maxTTL # 0 /\ ttl > maxTTL THEN ErrTTLOverMax
    ELSE NoError

\* lines 187-192: the loop over parsed[0].ExtKeyUsage
ClientAuth(usages) ==
    \E i \in DOMAIN usages : usages[i] = "ClientAuth" \/ usages[i] = "Any"

\* lines 178-196: the rejections on the parsed certificates
\* variant: the key-usage rule applied to every parsed certificate
CertErrorAnyCert(parsed) ==
    IF Len(parsed) = 0 THEN ErrParse
    ELSE IF \E i \in DOMAIN parsed :
               /\ ~parsed[i].IsCA
               /\ parsed[i].ExtKeyUsage # <<>>
               /\ ~ClientAuth(parsed[i].ExtKeyUsage)
         THEN ErrKeyUsage
         ELSE NoError

CertError(parsed) ==
    IF Len(parsed) = 0 THEN ErrParse
    ELSE IF /\ ~parsed[1].IsCA
            /\ parsed[1].ExtKeyUsage # <<>>
            /\ ~ClientAuth(parsed[1].ExtKeyUsage)
         THEN ErrKeyUsage
         ELSE NoError

\* the first return of lines 151-196 that is taken, NoError when none is
WriteError(certificate, ttl, maxTTL) ==
    IF TTLError(ttl, maxTTL) # NoError
    THEN TTLError(ttl, maxTTL)
    ELSE CertError(parsePEM(certificate))

\* lines 170-173 and 198-205
\* variant: without the default of lines 171-173
NewCertEntryKeepEmpty(name, certificate, displayName, policies, ttl, maxTTL) ==
    [Name |-> name, Certificate |-> certificate, DisplayName |-> displayName,
     Policies |-> policies, TTL |-> ttl, MaxTTL |-> maxTTL]

NewCertEntry(name, certificate, displayName, policies, ttl, maxTTL) ==
    [Name        |-> name,
     Certificate |-> certificate,
     DisplayName |-> IF displayName = <<>> THEN name ELSE displayName,
     Policies    |-> policies,
     TTL         |-> ttl,
     MaxTTL      |-> maxTTL]

\* lines 207-214, reached only when no rejection returned before
\* variant: the put placed before the certificate is parsed
WriteStorageBeforeParse(s, err, name, entry) ==
    IF err \in {ErrTTLNegative, ErrMaxTTLNegative, ErrTTLOverMax}
    THEN s
    ELSE StoragePut(s, StorageEntryJSON(Prefix \o name, entry))

WriteStorage(s, err, name, entry) ==
    IF err # NoError
    THEN s
    ELSE StoragePut(s, StorageEntryJSON(Prefix \o name, entry))

\* the returns of pathCertWrite: lines 152-194 and 216-220
WriteResponse(err, warnings) ==
    IF err # NoError THEN ErrorResponse(err)
    ELSE IF Len(warnings) = 0 THEN NilResponse
    ELSE WarningsResponse(warnings)

Request(certificate, display_name, policies, ttl, max_ttl, sysDefault, sysMax) ==
    [certificate |-> certificate, display_name |-> display_name,
     policies |-> policies, ttl |-> ttl, max_ttl |-> max_ttl,
     systemDefaultTTL |-> sysDefault, systemMaxTTL |-> sysMax]

NoRequest == [none |-> TRUE]

pathCertWrite(n, certificate, display_name, policiesRaw, ttlSecs, maxTTLSecs, sysDefaultSecs, sysMaxSecs) ==
    LET name             == ToLower(n)
        policies         == ParsePolicies(policiesRaw)
        systemDefaultTTL == sysDefaultSecs * Second
        ttl              == ttlSecs * Second
        systemMaxTTL     == sysMaxSecs * Second
        maxTTL           == maxTTLSecs * Second
        warnings         == TTLWarnings(ttl, maxTTL, systemDefaultTTL, systemMaxTTL)
        err              == WriteError(certificate, ttl, maxTTL)
        entry            == NewCertEntry(name, certificate, display_name,
                                         policies, ttl, maxTTL)
    IN  /\ storage' = WriteStorage(storage, err, name, entry)
        /\ last' = [op   |-> "write",
                    name |-> n,
                    req  |-> Request(certificate, display_name, policiesRaw,
                                     ttlSecs, maxTTLSecs, sysDefaultSecs, sysMaxSecs),
                    resp |-> WriteResponse(err, warnings)]
        /\ live' = IF err = NoError THEN live \cup {ToLower(n)} ELSE live
        /\ UNCHANGED <<pc, call, lastPut>>

-----------------------------------------------------------------------------
(* Cert, pathCertRead, pathCertDelete, pathCertList *)

\* lines 79-93
Cert(s, n) ==
    LET entry == StorageGet(s, Prefix \o ToLower(n))
    IN  IF entry = Nil THEN Nil ELSE DecodeJSON(entry)

\* lines 111-129
ReadResponseRawTTL(s, n) ==
    LET cert == Cert(s, ToLower(n))
    IN  IF cert = Nil THEN NilResponse
        ELSE DataResponse([certificate  |-> cert.Certificate,
                           display_name |-> cert.DisplayName,
                           policies     |-> cert.Policies,
                           ttl          |-> cert.TTL,
                           max_ttl      |-> cert.MaxTTL])

ReadResponse(s, n) ==
    LET cert == Cert(s, ToLower(n))
    IN  IF cert = Nil THEN NilResponse
        ELSE DataResponse([certificate  |-> cert.Certificate,
                           display_name |-> cert.DisplayName,
                           policies     |-> cert.Policies,
                           ttl          |-> cert.TTL \div Second,
                           max_ttl      |-> cert.MaxTTL \div Second])

pathCertRead(n) ==
    /\ last' = [op |-> "read", name |-> n, req |-> NoRequest,
                resp |-> ReadResponse(storage, n)]
    /\ UNCHANGED <<storage, live, pc, call, lastPut>>

\* line 96: the key handed to Storage.Delete
\* variant: the key built from the name as given
DeleteKeyAsGiven(n) == Prefix \o n

DeleteKey(n) == Prefix \o ToLower(n)

\* lines 95-101
pathCertDelete(n) ==
    /\ storage' = StorageDelete(storage, DeleteKey(n))
    /\ last' = [op |-> "delete", name |-> n, req |-> NoRequest, resp |-> NilResponse]
    /\ live' = live \ {ToLower(n)}
    /\ UNCHANGED <<pc, call, lastPut>>

\* line 104: the prefix handed to Storage.List
\* variant: the prefix of the path pattern, "certs/"
ListPrefixOfPattern == <<"c", "e", "r", "t", "s", "/">>

ListPrefix == Prefix

\* lines 103-109
pathCertList ==
    /\ last' = [op |-> "list", name |-> <<>>, req |-> NoRequest,
                resp |-> ListResponse(StorageList(storage, ListPrefix))]
    /\ UNCHANGED <<storage, live, pc, call, lastPut>>

-----------------------------------------------------------------------------
(* Requests *)

Junk        == [ok |-> FALSE, IsCA |-> FALSE, ExtKeyUsage |-> <<>>]
LeafClient  == [ok |-> TRUE, IsCA |-> FALSE, ExtKeyUsage |-> <<"ServerAuth", "ClientAuth">>]
LeafAny     == [ok |-> TRUE, IsCA |-> FALSE, ExtKeyUsage |-> <<"Any">>]
LeafServer  == [ok |-> TRUE, IsCA |-> FALSE, ExtKeyUsage |-> <<"ServerAuth">>]
LeafNoUsage == [ok |-> TRUE, IsCA |-> FALSE, ExtKeyUsage |-> <<>>]
CAServer    == [ok |-> TRUE, IsCA |-> TRUE, ExtKeyUsage |-> <<"ServerAuth">>]

NoWriters == <<>>

Init ==
    /\ storage = <<>>
    /\ last = [op |-> "none", name |-> <<>>, req |-> NoRequest, resp |-> NilResponse]
    /\ live = {}
    /\ pc = NoWriters
    /\ call = NoWriters
    /\ lastPut = <<>>

Write(names, certificates, displayNames, policyLists, ttls, maxTTLs, systemTTLs) ==
    \E n \in names, c \in certificates, dn \in displayNames, p \in policyLists,
       t \in ttls, m \in maxTTLs, sd \in systemTTLs, sm \in systemTTLs :
        pathCertWrite(n, c, dn, p, t, m, sd, sm)

Read(names) == \E n \in names : pathCertRead(n)

Delete(names) == \E n \in names : pathCertDelete(n)

List == pathCertList

-----------------------------------------------------------------------------
(* Spec: the four operations over two normalized names, every request field
   varied, with accepted and rejected Writes *)

Names == {<<"a", "b">>, <<"A", "b">>, <<"A", "B">>, <<"b">>, <<"B">>}

Certificates == {<<LeafClient>>, <<Junk>>}

DisplayNames == {<<>>, <<"D">>}

PolicyLists == {<<>>, <<"q", "p", "q">>}

TTLSeconds == {0, 2}

MaxTTLSeconds == {0, 1}

SystemSeconds == {1}

Next ==
    \/ Write(Names, Certificates, DisplayNames, PolicyLists,
             TTLSeconds, MaxTTLSeconds, SystemSeconds)
    \/ Read(Names)
    \/ Delete(Names)
    \/ List

Spec == Init /\ [][Next]_vars

-----------------------------------------------------------------------------
(* SpecTTL: one normalized name; ttl, max_ttl and the two system ceilings
   range over every sign and order, with certificates that are accepted,
   unparsable and refused by the key-usage rule *)

NamesTTL == {<<"A">>, <<"a">>}

CertificatesTTL == {<<LeafClient>>, <<Junk>>, <<LeafServer>>}

SecondsTTL == {-1, 0, 1, 2}

SystemSecondsTTL == {0, 1}

NextTTL ==
    \/ Write(NamesTTL, CertificatesTTL, {<<>>}, {<<"p">>},
             SecondsTTL, SecondsTTL, SystemSecondsTTL)
    \/ Read(NamesTTL)
    \/ Delete(NamesTTL)
    \/ List

SpecTTL == Init /\ [][NextTTL]_vars

-----------------------------------------------------------------------------
(* SpecCert: one name and valid durations; the certificate text ranges over
   every sequence of at most MaxBlocks PEM blocks *)

MaxBlocks == 2

CertBlocks == {Junk, LeafClient, LeafAny, LeafServer, LeafNoUsage, CAServer}

CertificatesCert == UNION {[1..n -> CertBlocks] : n \in 0..MaxBlocks}

NamesCert == {<<"A">>}

NextCert ==
    \/ Write(NamesCert, CertificatesCert, {<<>>}, {<<"p">>}, {0}, {0}, {1})
    \/ Read(NamesCert)
    \/ Delete(NamesCert)
    \/ List

SpecCert == Init /\ [][NextCert]_vars

-----------------------------------------------------------------------------
(* SpecConc: NumWriters calls of pathCertWrite run concurrently with each
   other and with Reads.  A call takes two steps: lines 134-205 work on the
   locals of the call alone; lines 208-220 are its one call of Storage.Put
   and its return. *)

NumWriters == 2

Writers == 1..NumWriters

NamesConc == {<<"A">>, <<"a">>, <<"b">>}

CertificatesConc == {<<LeafClient>>, <<Junk>>}

DisplayNamesConc == {<<>>, <<"D">>}

InitConc ==
    /\ storage = <<>>
    /\ last = [op |-> "none", name |-> <<>>, req |-> NoRequest, resp |-> NilResponse]
    /\ live = {}
    /\ pc = [w \in Writers |-> "start"]
    /\ call = [w \in Writers |-> Nil]
    /\ lastPut = <<>>

\* lines 131-205: up to the construction of certEntry, or a rejection
WriteBegin(w, n, certificate, display_name, policiesRaw, ttlSecs, maxTTLSecs, sysDefaultSecs, sysMaxSecs) ==
    LET name             == ToLower(n)
        policies         == ParsePolicies(policiesRaw)
        systemDefaultTTL == sysDefaultSecs * Second
        ttl              == ttlSecs * Second
        systemMaxTTL     == sysMaxSecs * Second
        maxTTL           == maxTTLSecs * Second
        warnings         == TTLWarnings(ttl, maxTTL, systemDefaultTTL, systemMaxTTL)
        err              == WriteError(certificate, ttl, maxTTL)
        entry            == NewCertEntry(name, certificate, display_name,
                                         policies, ttl, maxTTL)
    IN  /\ pc[w] = "start"
        /\ IF err # NoError
           THEN /\ pc' = [pc EXCEPT ![w] = "done"]
                /\ call' = [call EXCEPT ![w] =
                               [name |-> name, certEntry |-> Nil,
                                resp |-> WriteResponse(err, warnings)]]
           ELSE /\ pc' = [pc EXCEPT ![w] = "put"]
                /\ call' = [call EXCEPT ![w] =
                               [name |-> name, certEntry |-> entry,
                                resp |-> WriteResponse(err, warnings)]]
        /\ UNCHANGED <<storage, last, live, lastPut>>

\* lines 207-220: Storage.Put of the entry, then the return
WritePut(w) ==
    /\ pc[w] = "put"
    /\ storage' = WriteStorage(storage, NoError, call[w].name, call[w].certEntry)
    /\ lastPut' = [k \in DOMAIN lastPut \cup {Prefix \o call[w].name} |->
                      IF k = Prefix \o call[w].name THEN w ELSE lastPut[k]]
    /\ live' = live \cup {call[w].name}
    /\ pc' = [pc EXCEPT ![w] = "done"]
    /\ UNCHANGED <<last, call>>

ConcurrentWrite ==
    \E w \in Writers :
        \/ \E n \in NamesConc, c \in CertificatesConc, dn \in DisplayNamesConc :
               WriteBegin(w, n, c, dn, <<"p">>, 0, 0, 1, 1)
        \/ WritePut(w)

ConcurrentRead == \E n \in NamesConc : pathCertRead(n)

NextConc == ConcurrentWrite \/ ConcurrentRead

SpecConc == InitConc /\ [][NextConc]_vars

-----------------------------------------------------------------------------
(* What the claims speak of *)

WroteLast == last.op = "write"

Rejected == WroteLast /\ IsError(last.resp)

Accepted == WroteLast /\ ~IsError(last.resp)

LastKey == Prefix \o ToLower(last.name)

Stored(n) == storage[Prefix \o ToLower(n)].Value

TTLErrors == {ErrTTLNegative, ErrMaxTTLNegative, ErrTTLOverMax}

\* the validation rules as the specification words them, on a request
ValidTTLs(req) ==
    /\ req.ttl >= 0
    /\ req.max_ttl >= 0
    /\ (req.max_ttl # 0 => req.ttl <= req.max_ttl)

FirstCertificateAllowed(req) ==
    LET parsed == parsePEM(req.certificate)
    IN  /\ parsed # <<>>
        /\ \/ parsed[1].IsCA
           \/ parsed[1].ExtKeyUsage = <<>>
           \/ \E i \in DOMAIN parsed[1].ExtKeyUsage :
                  parsed[1].ExtKeyUsage[i] \in {"ClientAuth", "Any"}

WarnedFields(resp) ==
    IF resp.kind = "response"
    THEN {resp.warnings[i].field : i \in DOMAIN resp.warnings}
    ELSE {}

-----------------------------------------------------------------------------
\* C1: a Write rejected with a validation error (negative ttl, negative
\* max_ttl, ttl over a non-zero max_ttl, a certificate without any X.509
\* record, the key-usage rule) leaves the storage exactly as it was, the
\* entry under the same normalized name included; and every Write that breaks
\* one of these rules is so rejected.
C1_RejectedWriteMutatesNothing ==
    [][ (/\ last'.op = "write"
         /\ \/ IsError(last'.resp)
            \/ ~ValidTTLs(last'.req)
            \/ ~FirstCertificateAllowed(last'.req))
        => (/\ IsError(last'.resp)
            /\ last'.resp.error \in TTLErrors \cup {ErrParse, ErrKeyUsage}
            /\ storage' = storage) ]_vars

C1_Witness ==
    /\ Rejected
    /\ last.resp.error = ErrKeyUsage
    /\ LastKey \in DOMAIN storage

-----------------------------------------------------------------------------
\* C2 as stated: every stored entry has ttl >= 0, maxTTL >= 0 and
\* (maxTTL # 0 => ttl <= maxTTL), and a Write with maxTTL # 0 and
\* ttl > maxTTL fails with "ttl should be shorter than max_ttl".
StoredTTLsValid ==
    \A k \in DOMAIN storage :
        /\ storage[k].Value.TTL >= 0
        /\ storage[k].Value.MaxTTL >= 0
        /\ (storage[k].Value.MaxTTL # 0 => storage[k].Value.TTL <= storage[k].Value.MaxTTL)

-----------------------------------------------------------------------------
-----------------------------------------------------------------------------
\* C6: exceeding a system ceiling never blocks a Write.  A Write that passes
\* the validation is stored whether or not ttl > systemDefaultTTL or
\* maxTTL > systemMaxTTL; its response warns about ttl exactly when
\* ttl > systemDefaultTTL and about max_ttl exactly when
\* maxTTL > systemMaxTTL, and is the empty result when neither holds.
C6_CeilingsOnlyWarn ==
    (WroteLast /\ ValidTTLs(last.req) /\ FirstCertificateAllowed(last.req))
    => /\ ~IsError(last.resp)
       /\ LastKey \in DOMAIN storage
       /\ Stored(last.name).TTL = last.req.ttl * Second
       /\ Stored(last.name).MaxTTL = last.req.max_ttl * Second
       /\ ("ttl" \in WarnedFields(last.resp)
              <=> last.req.ttl > last.req.systemDefaultTTL)
       /\ ("max_ttl" \in WarnedFields(last.resp)
              <=> last.req.max_ttl > last.req.systemMaxTTL)
       /\ (last.resp = NilResponse
              <=> /\ last.req.ttl <= last.req.systemDefaultTTL
                  /\ last.req.max_ttl <= last.req.systemMaxTTL)
       /\ (last.resp.kind = "response"
              => \A i \in DOMAIN last.resp.warnings :
                    LET w == last.resp.warnings[i]
                    IN  IF w.field = "ttl"
                        THEN w.given = last.req.ttl /\ w.system = last.req.systemDefaultTTL
                        ELSE w.given = last.req.max_ttl /\ w.system = last.req.systemMaxTTL)

C6_Witness ==
    /\ Accepted
    /\ last.req.ttl > last.req.systemDefaultTTL
    /\ last.req.max_ttl > last.req.systemMaxTTL
    /\ WarnedFields(last.resp) = {"ttl", "max_ttl"}
    /\ LastKey \in DOMAIN storage

-----------------------------------------------------------------------------
(* Letter case, stated without strings.ToLower *)

CasePairs == {{"a", "A"}, {"b", "B"}, {"d", "D"}}

UpperCase == {"A", "B", "D"}

DiffersOnlyInCase(m, n) ==
    /\ Len(m) = Len(n)
    /\ \A i \in DOMAIN m : m[i] = n[i] \/ {m[i], n[i]} \in CasePairs

\* what a Read returns for the entry an accepted Write has just stored
DataOfLastWrite ==
    [certificate  |-> last.req.certificate,
     display_name |-> IF last.req.display_name = <<>>
                      THEN CHOOSE l \in Names :
                               DiffersOnlyInCase(l, last.name)
                               /\ \A i \in DOMAIN l : l[i] \notin UpperCase
                      ELSE last.req.display_name,
     policies     |-> {last.req.policies[i] : i \in DOMAIN last.req.policies},
     ttl          |-> last.req.ttl,
     max_ttl      |-> last.req.max_ttl]

-----------------------------------------------------------------------------
\* C4: names are case-insensitive on every path.  After a successful Write
\* under n, a Read under any name that differs from n only in letter case
\* returns the entry just written (certificate, displayName, policies, ttl,
\* maxTTL); every stored key is "cert/" followed by a lower-case name, so no
\* two stored entries have names that differ only in case.
C4_CaseInsensitiveNames ==
    /\ [](\A k \in DOMAIN storage :
            /\ SubSeq(k, 1, Len(Prefix)) = Prefix
            /\ \A i \in DOMAIN k : k[i] \notin UpperCase
            /\ \A j \in DOMAIN storage : DiffersOnlyInCase(j, k) => j = k)
    /\ [](Accepted =>
            \E k \in DOMAIN storage :
                DiffersOnlyInCase(k, Prefix \o last.name))
    /\ [][ (/\ Accepted
            /\ last'.op = "read"
            /\ DiffersOnlyInCase(last'.name, last.name))
           => last'.resp = DataResponse(DataOfLastWrite) ]_vars

C4_Witness ==
    /\ last.op = "read"
    /\ last.name = <<"A", "B">>
    /\ last.resp.kind = "data"
    /\ last.resp.data.display_name = <<"a", "b">>
    /\ last.resp.data.ttl = 2
    /\ DOMAIN storage = {Prefix \o <<"a", "b">>}

-----------------------------------------------------------------------------
\* C7: List returns exactly the normalized names whose last successful Write
\* or Delete (under any letter case) was a Write; the names of rejected
\* Writes and of deleted entries are not listed, and List changes nothing in
\* storage.
C7_ListIsTheLiveNames ==
    /\ [](last.op = "list" => last.resp = ListResponse(live))
    /\ [][last'.op = "list" => storage' = storage]_vars

C7_Witness ==
    /\ last.op = "list"
    /\ last.resp.keys = {<<"a", "b">>}
    /\ live = {<<"a", "b">>}

-----------------------------------------------------------------------------
\* C8: Delete(name) returns success with no error whether or not an entry
\* exists.  It removes the key of the normalized name and nothing else: the
\* storage is unchanged when no such entry exists, every other entry stays
\* as it was, and a Read that follows under any letter case of the name
\* returns the empty result.
C8_DeleteRemovesOneKey ==
    /\ [][ last'.op = "delete"
           => /\ last'.resp = NilResponse
              /\ DOMAIN storage' =
                     {k \in DOMAIN storage :
                         ~DiffersOnlyInCase(k, Prefix \o last'.name)}
              /\ \A k \in DOMAIN storage' : storage'[k] = storage[k] ]_vars
    /\ [][ (/\ last.op = "delete"
            /\ last'.op = "read"
            /\ DiffersOnlyInCase(last'.name, last.name))
           => last'.resp = NilResponse ]_vars

C8_Witness ==
    /\ last.op = "delete"
    /\ last.name = <<"A", "B">>
    /\ live = {<<"b">>}
    /\ DOMAIN storage = {Prefix \o <<"b">>}

-----------------------------------------------------------------------------
\* C9: Write is a full replace.  The entry a successful Write stores is
\* fixed by the arguments of that Write (displayName being the normalized
\* name when the argument is empty, policies the empty set when none are
\* given), never by what was stored under the name before; the entries under
\* other names stay as they were; repeating the Write changes nothing.
EntryOfLastWrite ==
    [Name        |-> ToLower(last.name),
     Certificate |-> last.req.certificate,
     DisplayName |-> IF last.req.display_name = <<>>
                     THEN ToLower(last.name) ELSE last.req.display_name,
     Policies    |-> {last.req.policies[i] : i \in DOMAIN last.req.policies},
     TTL         |-> last.req.ttl * Second,
     MaxTTL      |-> last.req.max_ttl * Second]

C9_WriteIsFullReplace ==
    /\ [](Accepted =>
            /\ LastKey \in DOMAIN storage
            /\ storage[LastKey] = [Key |-> LastKey, Value |-> EntryOfLastWrite])
    /\ [][ last'.op = "write"
           => /\ DOMAIN storage' \subseteq DOMAIN storage \cup {Prefix \o ToLower(last'.name)}
              /\ \A k \in DOMAIN storage \ {Prefix \o ToLower(last'.name)} :
                    k \in DOMAIN storage' /\ storage'[k] = storage[k] ]_vars
    /\ [][ (/\ Accepted
            /\ last'.op = "write"
            /\ last'.name = last.name
            /\ last'.req = last.req)
           => storage' = storage ]_vars

C9_Witness ==
    /\ Accepted
    /\ last.name = <<"A", "b">>
    /\ last.req.display_name = <<>>
    /\ last.req.policies = <<>>
    /\ storage[LastKey].Value.DisplayName = <<"a", "b">>
    /\ storage[LastKey].Value.Policies = {}
    /\ Prefix \o <<"b">> \in DOMAIN storage

-----------------------------------------------------------------------------
\* C3: for a Write whose ttl and max_ttl are valid and whose certificate
\* parses to at least one record, the Write is rejected with the key-usage
\* error if and only if the first parsed certificate is not a CA, has a
\* non-empty extended-key-usage list, and that list holds neither ClientAuth
\* nor Any; otherwise it is stored with the certificate text as given.  The
\* certificates after the first never matter.
FirstCertificateRefused(req) ==
    LET first == parsePEM(req.certificate)[1]
    IN  /\ ~first.IsCA
        /\ Len(first.ExtKeyUsage) > 0
        /\ \A i \in DOMAIN first.ExtKeyUsage :
               first.ExtKeyUsage[i] \notin {"ClientAuth", "Any"}

-----------------------------------------------------------------------------
\* C10: under any interleaving of concurrent Writes, each Write changes the
\* storage by one put.  The entry under a key is always the complete entry
\* of the Write whose put reached the key last, never a mixture; a
\* concurrent Read returns nothing or all the fields of one Write's entry;
\* and a put changes the entry of its own normalized name only.
DataOf(e) ==
    [certificate |-> e.Certificate, display_name |-> e.DisplayName,
     policies |-> e.Policies, ttl |-> e.TTL \div Second,
     max_ttl |-> e.MaxTTL \div Second]

C10_LastPutWins ==
    /\ [](\A k \in DOMAIN storage :
            /\ k \in DOMAIN lastPut
            /\ pc[lastPut[k]] = "done"
            /\ k = Prefix \o call[lastPut[k]].name
            /\ storage[k] = [Key |-> k, Value |-> call[lastPut[k]].certEntry])
    /\ [](last.op = "read" =>
            \/ last.resp = NilResponse
            \/ \E w \in Writers :
                  /\ pc[w] = "done"
                  /\ call[w].certEntry # Nil
                  /\ DiffersOnlyInCase(call[w].name, last.name)
                  /\ last.resp = DataResponse(DataOf(call[w].certEntry)))
    /\ [][ \A k \in DOMAIN storage :
              /\ k \in DOMAIN storage'
              /\ storage'[k] # storage[k]
                 => \E w \in Writers :
                       /\ pc[w] = "put"
                       /\ pc'[w] = "done"
                       /\ k = Prefix \o call[w].name
                       /\ storage'[k].Value = call[w].certEntry ]_vars

C10_Witness ==
    /\ \A w \in Writers : pc[w] = "done" /\ call[w].certEntry # Nil
    /\ call[1].name = call[2].name
    /\ call[1].certEntry # call[2].certEntry
    /\ lastPut[Prefix \o call[1].name] = 1
    /\ last.op = "read"
    /\ last.resp = DataResponse(DataOf(call[2].certEntry))

=============================================================================
